---- MODULE Spec2Model ----
(***************************************************************************)
(* Clinic schedule: the CP-SAT scheduling engine (solver_service), the     *)
(* validator (validation_service) and the schedule/assignment/solver       *)
(* routes (api/v1), as a state machine over one schedule.                  *)
(*                                                                         *)
(* Conventions.  A date is its day of the month (1..NumDates); di is that  *)
(* day number.  bi is the 0-based index into TIME_BLOCK_ORDER, as in the   *)
(* source.  si is the 1-based position in the name-ordered list of active  *)
(* staff, and doubles as the staff id.  None stands for Python's None in   *)
(* string-valued fields; integer-valued optional fields use 0 (both are    *)
(* falsy in every test the source makes on them).                          *)
(***************************************************************************)
EXTENDS Integers, Sequences, FiniteSets, TLC

None == "None"

-----------------------------------------------------------------------------
(* Bounds of the model *)

NumStaff == 2
NumDates == 1
MaxTaskCells == 2
MaxOps == 4
MaxDuration == 12

-----------------------------------------------------------------------------
(* solver_service.py: module constants *)

TIME_BLOCK_ORDER == <<"am", "lunch", "pm", "15", "16", "17", "18plus">>

NumBlocks == Len(TIME_BLOCK_ORDER)

BlockIdx == 0 .. (NumBlocks - 1)

BlockAt(bi) == TIME_BLOCK_ORDER[bi + 1]

InBlockOrder(block) == \E bi \in BlockIdx : BlockAt(bi) = block

BlockIndex(block) == CHOOSE bi \in BlockIdx : BlockAt(bi) = block

START_HOUR_TO_BLOCK ==
  [h \in {9, 12, 13, 15, 16, 17, 18} |->
     CASE h = 9 -> "am" [] h = 12 -> "lunch" [] h = 13 -> "pm" [] h = 15 -> "15"
       [] h = 16 -> "16" [] h = 17 -> "17" [] h = 18 -> "18plus"]

BLOCK_DURATIONS ==
  [b \in {"am", "lunch", "pm", "15", "16", "17", "18plus"} |->
     CASE b = "am" -> 3 [] b = "lunch" -> 1 [] b = "pm" -> 2 [] b = "15" -> 1
       [] b = "16" -> 1 [] b = "17" -> 1 [] b = "18plus" -> 2]

EVENT_PRIORITY_PENALTY ==
  [p \in {"high", "medium", "low"} |->
     CASE p = "high" -> 800 [] p = "medium" -> 400 [] p = "low" -> 100]

LateBlocks == {"15", "16", "17", "18plus"}

-----------------------------------------------------------------------------
(* The month of the schedule: ym holds the month number of year_month and   *)
(* the weekday (0 = Monday) of its day 1; dates lists its first NumDates    *)
(* days.                                                                    *)

Dates == 1 .. NumDates

Weekday(ym, d) == (ym.first_weekday + d - 1) % 7

NoDate == -1     \* payload without a date
BadDate == -2    \* a date string date.fromisoformat rejects
NoHour == -1     \* payload without a start hour

-----------------------------------------------------------------------------
(* Generic helpers *)

RECURSIVE Flatten(_)
Flatten(ss) == IF ss = <<>> THEN <<>> ELSE Head(ss) \o Flatten(Tail(ss))

Range(s) == {s[i] : i \in DOMAIN s}

RECURSIVE SumSeq(_)
SumSeq(s) == IF s = <<>> THEN 0 ELSE Head(s) + SumSeq(Tail(s))

Max(a, b) == IF a >= b THEN a ELSE b

(* dict.get(key, default) *)
Get(d, key, default) == IF key \in DOMAIN d THEN d[key] ELSE default

RECURSIVE SumFn(_)
SumFn(f) ==
  IF DOMAIN f = {} THEN 0
  ELSE LET e == CHOOSE e \in DOMAIN f : TRUE
       IN  f[e] + SumFn([d \in DOMAIN f \ {e} |-> f[d]])

RECURSIVE SubsetsUpTo(_, _)
SubsetsUpTo(S, k) ==
  IF k = 0 THEN {{}}
  ELSE LET smaller == SubsetsUpTo(S, k - 1)
       IN  smaller \cup { A \cup {e} : A \in smaller, e \in S }

-----------------------------------------------------------------------------
(* solver_service.py: _event_blocks_for_duration *)

RECURSIVE _event_blocks_walk(_, _)
_event_blocks_walk(bi, remaining) ==
  IF remaining > 0 /\ bi < NumBlocks
    THEN <<bi>> \o _event_blocks_walk(bi + 1, remaining - BLOCK_DURATIONS[BlockAt(bi)])
    ELSE <<>>

_event_blocks_for_duration(start_bi, duration_hours) ==
  _event_blocks_walk(start_bi, duration_hours)

(* solver_service.py: _expand_event_slots; one {date, start} payload *)
_expand_slot(ym, slot) ==
  IF slot.date # NoDate /\ slot.start # NoHour
    THEN IF slot.date = BadDate
           THEN <<>>
           ELSE IF slot.date \in Dates /\ slot.start \in DOMAIN START_HOUR_TO_BLOCK
                  THEN <<<<slot.date, BlockIndex(START_HOUR_TO_BLOCK[slot.start])>>>>
                  ELSE <<>>
    ELSE <<>>

_range_candidate_blocks(period) ==
  IF period = "am" THEN <<"am">>
  ELSE IF period = "pm" THEN <<"pm", "15", "16">>
  ELSE <<"am", "pm", "15", "16", "17">>

_range_date_slots(ym, tc_data, d) ==
  LET weekdays == IF "weekdays" \in DOMAIN tc_data THEN tc_data.weekdays ELSE 0 .. 4
      blocks == _range_candidate_blocks(tc_data.period)
  IN  IF tc_data.month # 0 /\ ym.month # tc_data.month THEN <<>>
      ELSE IF Weekday(ym, d) \notin weekdays THEN <<>>
      ELSE [i \in 1 .. Len(blocks) |-> <<d, BlockIndex(blocks[i])>>]

_expand_event_slots(event, ym) ==
  LET tc_type == event.time_constraint_type
      tc_data == event.time_constraint_data
  IN  CASE tc_type = "fixed" -> _expand_slot(ym, tc_data)
        [] tc_type = "range" ->
             Flatten([d \in Dates |-> _range_date_slots(ym, tc_data, d)])
        [] tc_type = "candidates" ->
             Flatten([i \in 1 .. Len(tc_data.slots) |-> _expand_slot(ym, tc_data.slots[i])])
        [] OTHER -> <<>>

-----------------------------------------------------------------------------
(* solver_service.py: _build_model.  data is the snapshot returned by       *)
(* _load_solver_data.  A solver solution is sol = [x |-> ..., ev |-> ...]:  *)
(* x maps every cell <<si, di, bi>> to 0 (unassigned) or a 1-based task     *)
(* index, ev is the set of keys <<ei, si, di, bi>> of the event variables   *)
(* whose value is 1.  The one-hot y[si, di, bi, ti] is x[si, di, bi] = ti.  *)

StaffIdx(data) == 1 .. Len(data.staffs)

Cells(data) == StaffIdx(data) \X Dates \X BlockIdx

num_tasks(data) == Len(data.task_types)

tt_index(data, code) ==
  IF \E i \in 1 .. Len(data.task_types) : data.task_types[i].code = code
    THEN CHOOSE i \in 1 .. Len(data.task_types) : data.task_types[i].code = code
    ELSE 0

event_allowed_slots(data, ei) == _expand_event_slots(data.events[ei], data.ym)

EvKeys(data) ==
  { k \in (1 .. Len(data.events)) \X StaffIdx(data) \X Dates \X BlockIdx :
      <<k[3], k[4]>> \in Range(event_allowed_slots(data, k[1])) }

Count(data, x, di, bi, ti) ==
  Cardinality({ si \in StaffIdx(data) : x[<<si, di, bi>>] = ti })

(* 1. locked cells: the task index a locked row forces on its cell, 0 when  *)
(* the row constrains nothing                                               *)
LockedTarget(data, la) ==
  IF la.staff_id \in StaffIdx(data) /\ la.date \in Dates /\ InBlockOrder(la.time_block)
    THEN IF la.task_type_code # None /\ tt_index(data, la.task_type_code) # 0
           THEN tt_index(data, la.task_type_code)
           ELSE IF la.status_color = "off" THEN tt_index(data, "off") ELSE 0
    ELSE 0

LockedCell(la) == <<la.staff_id, la.date, BlockIndex(la.time_block)>>

locked_set(data) ==
  { LockedCell(la) : la \in { l \in data.locked : LockedTarget(data, l) # 0 } }

LockedCells(data, x) ==
  \A la \in data.locked :
     LockedTarget(data, la) # 0 => x[LockedCell(la)] = LockedTarget(data, la)

(* 2. skill requirements *)
MissingSkills(required, s_skills) == { r \in required : r \notin s_skills }

SkillForbidden(data, si, ti) ==
  LET required == data.task_types[ti].required_skills
  IN  required # {} /\ MissingSkills(required, data.staffs[si].skills) # {}

SkillRequirements(data, x) ==
  \A c \in Cells(data) : x[c] # 0 => ~SkillForbidden(data, c[1], x[c])

(* 3. visit tasks need transport capability *)
TransportForbidden(data, si, ti) ==
  LET tt == data.task_types[ti]
  IN  /\ tt.location_type = "visit"
      /\ \/ "car" \in tt.required_resources /\ ~data.staffs[si].can_drive
         \/ "bicycle" \in tt.required_resources /\ ~data.staffs[si].can_bicycle

VisitTransport(data, x) ==
  \A c \in Cells(data) : x[c] # 0 => ~TransportForbidden(data, c[1], x[c])

(* 4. part-time staff: nothing after the pm block *)
PartTimeLate(data, x) ==
  \A c \in Cells(data) :
     (data.staffs[c[1]].employment_type = "part_time" /\ BlockAt(c[3]) \in LateBlocks)
       => x[c] = 0

(* 5. minimum staff per task type: the shortfall variable and its bound *)
IsWeekend(data, di) == Weekday(data.ym, di) >= 5

ShortfallSlots(data) ==
  { <<ti, di, bi>> \in (1 .. num_tasks(data)) \X Dates \X BlockIdx :
      /\ data.task_types[ti].min_staff > 1
      /\ ~IsWeekend(data, di)
      /\ BlockAt(bi) \in data.task_types[ti].default_blocks }

ShortfallVars(data, x) ==
  \A k \in ShortfallSlots(data) :
     \E shortfall \in 0 .. Len(data.staffs) :
        shortfall >= data.task_types[k[1]].min_staff - Count(data, x, k[2], k[3], k[1])

(* 7. workload: the excess variable and its bound *)
daily_work(data, x, si, di) ==
  Cardinality({ bi \in BlockIdx : BlockAt(bi) # "lunch" /\ x[<<si, di, bi>>] # 0 })

ExcessVars(data, x) ==
  \A si \in StaffIdx(data), di \in Dates :
     \E excess \in 0 .. 6 : excess >= daily_work(data, x, si, di) - 5

(* 8. hard headcount rules *)
RuleTaskCode(body) ==
  IF Get(body, "task_type_code", None) # None
    THEN body.task_type_code ELSE Get(body, "event_code", None)

RuleMinStaff(body) == Get(body, "min_staff", 0)

HardHeadcountApplies(data, i) ==
  LET rule == data.rules[i]
      tc == RuleTaskCode(rule.body)
  IN  /\ rule.template_type = "headcount" /\ rule.hard_or_soft = "hard"
      /\ tc # None /\ tt_index(data, tc) # 0 /\ RuleMinStaff(rule.body) # 0

HeadcountSlots(data, i) ==
  { p \in Dates \X BlockIdx :
      /\ ~IsWeekend(data, p[1])
      /\ BlockAt(p[2]) \in
           data.task_types[tt_index(data, RuleTaskCode(data.rules[i].body))].default_blocks }

(* variant: the hard headcount rules add no constraint *)
HeadcountRulesSkipped(data, x) == TRUE

HeadcountRules(data, x) ==
  \A i \in 1 .. Len(data.rules) :
     HardHeadcountApplies(data, i) =>
       \A p \in HeadcountSlots(data, i) :
          Count(data, x, p[1], p[2], tt_index(data, RuleTaskCode(data.rules[i].body)))
            >= RuleMinStaff(data.rules[i].body)

XConstraints(data, x) ==
  /\ LockedCells(data, x)
  /\ SkillRequirements(data, x)
  /\ VisitTransport(data, x)
  /\ PartTimeLate(data, x)
  /\ ShortfallVars(data, x)
  /\ ExcessVars(data, x)
  /\ HeadcountRules(data, x)

-----------------------------------------------------------------------------
(* _build_model, section 9: event variables and constraints *)

(* sum(all_ev_vars): the list has one entry per staff and per entry of the  *)
(* allowed-slot list, so a slot listed twice counts its variable twice      *)
EvSum(data, ev, ei) ==
  LET allowed == event_allowed_slots(data, ei)
  IN  Cardinality({ p \in StaffIdx(data) \X DOMAIN allowed :
                      <<ei, p[1], allowed[p[2]][1], allowed[p[2]][2]>> \in ev })

(* 9a. at most one placement per event that has allowed slots *)
(* variant: no bound on the number of placements of an event *)
EventAtMostOneSkipped(data, ev) == TRUE

EventAtMostOne(data, ev) ==
  \A ei \in 1 .. Len(data.events) :
     event_allowed_slots(data, ei) # <<>> => EvSum(data, ev, ei) <= 1

(* 9b. coverage: required events are placed, others carry is_unassigned *)
EventCoverage(data, ev) ==
  \A ei \in 1 .. Len(data.events) :
     event_allowed_slots(data, ei) # <<>> =>
       IF data.events[ei].priority = "required"
         THEN EvSum(data, ev, ei) = 1
         ELSE \E is_unassigned \in BOOLEAN :
                /\ is_unassigned => EvSum(data, ev, ei) = 0
                /\ ~is_unassigned => EvSum(data, ev, ei) >= 1

(* 9c. skill requirements of events *)
(* variant: the events' required skills add no constraint *)
EventSkillsSkipped(data, ev) == TRUE

EventSkills(data, ev) ==
  \A k \in ev :
     LET required == data.events[k[1]].required_skills
     IN  required # {} => MissingSkills(required, data.staffs[k[2]].skills) = {}

EventSpan(data, ei, bi) ==
  _event_blocks_for_duration(bi, IF data.events[ei].duration_hours # 0
                                   THEN data.events[ei].duration_hours ELSE 1)

(* 9d. a placed event forces x to 0 on the unlocked cells of its span *)
EventNonOverlap(data, x, ev) ==
  \A k \in ev :
     \A span_bi \in Range(EventSpan(data, k[1], k[4])) :
        (span_bi < NumBlocks /\ <<k[2], k[3], span_bi>> \notin locked_set(data))
          => x[<<k[2], k[3], span_bi>>] = 0

(* 9e. resource capacity per (resource type, di, span_bi) *)
resource_by_type(data, res_type) ==
  SelectSeq(data.resources, LAMBDA r : r.type = res_type)

total_capacity(data, res_type) ==
  SumSeq([i \in 1 .. Len(resource_by_type(data, res_type)) |->
            resource_by_type(data, res_type)[i].capacity])

Competing(data, ev, res_type, di, span_bi) ==
  LET entries(oei) ==
        { q \in StaffIdx(data) \X DOMAIN event_allowed_slots(data, oei) :
            LET slot == event_allowed_slots(data, oei)[q[2]]
            IN  /\ slot[1] = di
                /\ span_bi \in Range(EventSpan(data, oei, slot[2]))
                /\ <<oei, q[1], slot[1], slot[2]>> \in ev }
      others == { oei \in 1 .. Len(data.events) :
                    res_type \in data.events[oei].required_resources }
  IN  Cardinality(UNION { { <<oei, q>> : q \in entries(oei) } : oei \in others })

ResourceKeys(data) ==
  { key \in (UNION { data.events[ei].required_resources : ei \in 1 .. Len(data.events) })
            \X Dates \X BlockIdx :
      \E ei \in 1 .. Len(data.events) :
         /\ key[1] \in data.events[ei].required_resources
         /\ \E slot \in Range(event_allowed_slots(data, ei)) :
               slot[1] = key[2] /\ key[3] \in Range(EventSpan(data, ei, slot[2])) }

ResourceCapacity(data, ev) ==
  \A key \in ResourceKeys(data) :
     resource_by_type(data, key[1]) # <<>> =>
       Competing(data, ev, key[1], key[2], key[3]) <= total_capacity(data, key[1])

EvConstraints(data, ev) ==
  /\ EventAtMostOne(data, ev)
  /\ EventCoverage(data, ev)
  /\ EventSkills(data, ev)
  /\ ResourceCapacity(data, ev)

(* the objective: the penalties at the least value of each penalty variable *)
EventPenalty(data, ei) ==
  IF data.events[ei].priority \in DOMAIN EVENT_PRIORITY_PENALTY
    THEN EVENT_PRIORITY_PENALTY[data.events[ei].priority] ELSE 100

Objective(data, sol) ==
  LET short(k) == 500 * Max(0, data.task_types[k[1]].min_staff
                                 - Count(data, sol.x, k[2], k[3], k[1]))
      excess(p) == 200 * Max(0, daily_work(data, sol.x, p[1], p[2]) - 5)
      unassigned == { ei \in 1 .. Len(data.events) :
                        /\ event_allowed_slots(data, ei) # <<>>
                        /\ data.events[ei].priority # "required"
                        /\ EvSum(data, sol.ev, ei) = 0 }
      weight(ei) == EventPenalty(data, ei)
  IN  SumFn([k \in ShortfallSlots(data) |-> short(k)])
      + SumFn([p \in StaffIdx(data) \X Dates |-> excess(p)])
      + SumFn([ei \in unassigned |-> weight(ei)])

-----------------------------------------------------------------------------
(* The CP-SAT search (cp_model.CpSolver.solve): any solution of the model.  *)
(* The search space explored here holds the assignments x that give a task  *)
(* to at most MaxTaskCells cells besides the cells of locked rows.          *)

LockedGridCells(data) ==
  { LockedCell(la) :
      la \in { l \in data.locked :
                 l.staff_id \in StaffIdx(data) /\ l.date \in Dates } }

(* the tasks constraints 2-4 leave open for a cell; a cell with none is 0   *)
(* in every solution                                                        *)
OpenTasks(data, c) ==
  { ti \in 1 .. num_tasks(data) :
      /\ ~SkillForbidden(data, c[1], ti)
      /\ ~TransportForbidden(data, c[1], ti)
      /\ ~(data.staffs[c[1]].employment_type = "part_time" /\ BlockAt(c[3]) \in LateBlocks) }

XCandidates(data) ==
  LET lockedCells == LockedGridCells(data)
      free == { c \in Cells(data) \ lockedCells : OpenTasks(data, c) # {} }
      supports == SubsetsUpTo(free, MaxTaskCells)
  IN  UNION { { [c \in Cells(data) |->
                   IF c \in S THEN p[c] ELSE IF c \in lockedCells THEN q[c] ELSE 0] :
                 p \in { f \in [S -> 1 .. num_tasks(data)] :
                           \A c \in S : f[c] \in OpenTasks(data, c) },
                 q \in [lockedCells -> 0 .. num_tasks(data)] } :
              S \in supports }

Solutions(data) ==
  LET evs == { E \in SUBSET EvKeys(data) : EvConstraints(data, E) }
      xs == { x \in XCandidates(data) : XConstraints(data, x) }
  IN  { sol \in { [x |-> x, ev |-> E] : x \in xs, E \in evs } :
          EventNonOverlap(data, sol.x, sol.ev) }

(* An upper bound on the number of unlocked cells that the constraints and  *)
(* the shortfall penalties can ask to carry a task: when it is within       *)
(* MaxTaskCells the explored space decides infeasibility and optimality.    *)
NeededCells(data) ==
  SumFn([k \in ShortfallSlots(data) |-> data.task_types[k[1]].min_staff])
  + SumFn([i \in 1 .. Len(data.rules) |->
             IF HardHeadcountApplies(data, i)
               THEN RuleMinStaff(data.rules[i].body) * Cardinality(HeadcountSlots(data, i))
               ELSE 0])

SearchDecides(data) == NeededCells(data) <= MaxTaskCells

-----------------------------------------------------------------------------
(* solver_service.py: _extract_solution *)

CellOrder(data) ==
  Flatten([si \in StaffIdx(data) |->
    Flatten([di \in Dates |-> [b \in 1 .. NumBlocks |-> <<si, di, b - 1>>]])])

TaskDict(data, sol, c) ==
  [staff_id |-> c[1], date |-> c[2], time_block |-> BlockAt(c[3]),
   task_type_code |-> data.task_types[sol.x[c]].code,
   event_id |-> None, source |-> "solver"]

EventDict(data, ei, si, di, span_bi) ==
  [staff_id |-> si, date |-> di, time_block |-> BlockAt(span_bi),
   task_type_code |-> data.events[ei].type_code,
   event_id |-> data.events[ei].id, source |-> "solver"]

EventPlacementDicts(data, sol, ei, si, slot) ==
  IF <<ei, si, slot[1], slot[2]>> \in sol.ev
    THEN LET span_blocks == EventSpan(data, ei, slot[2])
         IN  [j \in 1 .. Len(span_blocks) |-> EventDict(data, ei, si, slot[1], span_blocks[j])]
    ELSE <<>>

_extract_solution(data, sol) ==
  LET taken == SelectSeq(CellOrder(data),
                         LAMBDA c : c \notin locked_set(data) /\ sol.x[c] > 0)
      task_assignments == [i \in 1 .. Len(taken) |-> TaskDict(data, sol, taken[i])]
      event_assignments ==
        Flatten([ei \in 1 .. Len(data.events) |->
          Flatten([si \in StaffIdx(data) |->
            LET allowed == event_allowed_slots(data, ei)
            IN  Flatten([i \in 1 .. Len(allowed) |->
                  EventPlacementDicts(data, sol, ei, si, allowed[i])])])])
  IN  task_assignments \o event_assignments

-----------------------------------------------------------------------------
(* The store.  master holds the master data (active staff ordered by name,  *)
(* task types, rules, resources) and the schedule's year_month; events the  *)
(* Event rows; status, assignments and solver_result the Schedule row and   *)
(* its ScheduleAssignment rows; violations the stored result of the last    *)
(* check; response the last reply sent; last_solve what solve_schedule      *)
(* returned to the request just handled (empty when the request did not     *)
(* call it); ops counts the requests handled.                               *)

VARIABLES master, events, status, assignments, solver_result, violations,
          response, last_solve, ops

vars == <<master, events, status, assignments, solver_result, violations,
          response, last_solve, ops>>

ThisSchedule == "this"

RowKey(r) == <<r.staff_id, r.date, r.time_block>>

(* models/schedule.py: uq_assignment, over a set of rows and a list of rows *)
(* added in the same flush                                                  *)
uq_assignment(kept, added) ==
  /\ \A i \in DOMAIN added : \A r \in kept : RowKey(r) # RowKey(added[i])
  /\ \A i, j \in DOMAIN added : i # j => RowKey(added[i]) # RowKey(added[j])

(* solver_service.py: _load_solver_data *)
_load_solver_data ==
  [staffs |-> master.staffs,
   task_types |-> SelectSeq(master.task_types, LAMBDA t : t.is_active),
   locked |-> { r \in assignments : r.is_locked },
   rules |-> SelectSeq(master.rules, LAMBDA r : r.is_active),
   events |-> SelectSeq(events, LAMBDA e : e.schedule_id = ThisSchedule
                                           /\ e.status \in {"unassigned", "assigned"}),
   resources |-> SelectSeq(master.resources, LAMBDA r : r.is_active),
   ym |-> master.ym]

NoSolution(data) == [x |-> [c \in Cells(data) |-> 0], ev |-> {}]

NoObjective == -1

(* the dict solve_schedule returns, with the events and active resources   *)
(* it solved for and the event variables whose value is 1 (placed)         *)
SolveResult(data, st, sol, extracted) ==
  [status |-> st, assignments |-> extracted,
   events |-> data.events, resources |-> data.resources, placed |-> sol.ev,
   stats |-> [status |-> st,
              objective_value |-> IF st \in {"OPTIMAL", "FEASIBLE"}
                                    THEN Objective(data, sol) ELSE NoObjective,
              num_assignments_generated |-> Len(extracted),
              num_staff |-> Len(data.staffs),
              num_dates |-> NumDates,
              num_events |-> Len(data.events)]]

(* solver_service.py: solve_schedule; the set of values one call may return *)
solve_schedule(data) ==
  IF data.staffs = <<>>
    THEN { [status |-> "NO_STAFF", assignments |-> <<>>,
            events |-> data.events, resources |-> data.resources, placed |-> {},
            stats |-> <<>>] }
    ELSE LET sols == Solutions(data)
             values == { Objective(data, sol) : sol \in sols }
             least == CHOOSE v \in values : \A w \in values : v <= w
             best == { sol \in sols : Objective(data, sol) = least }
         IN  { SolveResult(data, "UNKNOWN", NoSolution(data), <<>>) }
             \cup { SolveResult(data, "INFEASIBLE", NoSolution(data), <<>>) :
                      u \in { u \in {1} : sols = {} /\ SearchDecides(data) } }
             \cup { SolveResult(data, "FEASIBLE", sol, _extract_solution(data, sol)) :
                      sol \in sols }
             \cup { SolveResult(data, "OPTIMAL", sol, _extract_solution(data, sol)) :
                      sol \in { b \in best : SearchDecides(data) } }

(* solver_service.py: apply_solver_result, as the value it computes from    *)
(* the rows and events it reads: error is None or the exception raised      *)
NewRow(a) ==
  [staff_id |-> a.staff_id, date |-> a.date, time_block |-> a.time_block,
   task_type_code |-> a.task_type_code, status_color |-> None,
   is_locked |-> FALSE, source |-> "solver", event_id |-> a.event_id]

(* variant: no clearing step *)
ClearNothing(rows, clear_unlocked) == rows

(* variant: the clearing step without its is_locked filter *)
ClearEveryRow(rows, clear_unlocked) ==
  IF clear_unlocked THEN {} ELSE rows

ClearUnlocked(rows, clear_unlocked) ==
  IF clear_unlocked THEN { r \in rows : r.is_locked } ELSE rows

SyncEventStatus(evs, dicts) ==
  LET assigned_event_ids == { dicts[i].event_id : i \in DOMAIN dicts } \ {None}
  IN  [i \in DOMAIN evs |->
         IF evs[i].schedule_id = ThisSchedule /\ evs[i].status \in {"unassigned", "assigned"}
           THEN [evs[i] EXCEPT !.status = IF evs[i].id \in assigned_event_ids
                                            THEN "assigned" ELSE "unassigned"]
           ELSE evs[i]]

apply_solver_result(rows, evs, dicts, clear_unlocked) ==
  LET kept == ClearUnlocked(rows, clear_unlocked)
      added == [i \in DOMAIN dicts |-> NewRow(dicts[i])]
  IN  IF uq_assignment(kept, added)
        THEN [error |-> None, rows |-> kept \cup Range(added),
              events |-> SyncEventStatus(evs, dicts), count |-> Len(dicts),
              kept |-> kept, added |-> added]
        ELSE [error |-> "IntegrityError", rows |-> kept, events |-> evs, count |-> 0,
              kept |-> kept, added |-> added]

-----------------------------------------------------------------------------
(* core/database.py: get_db, the unit of work around every request: the     *)
(* writes of a handler are kept when it returns and dropped when it raises  *)

(* variant: the writes of a handler that raises are kept *)
get_db_keeps(before, after, error) == after

get_db(before, after, error) == IF error = None THEN after ELSE before

Store == [events |-> events, status |-> status, assignments |-> assignments,
          solver_result |-> solver_result]

Commit(db) ==
  /\ events' = db.events
  /\ status' = db.status
  /\ assignments' = db.assignments
  /\ solver_result' = db.solver_result

Handled == /\ ops < MaxOps
           /\ ops' = ops + 1
           /\ UNCHANGED master

NoResult == [kind |-> "none"]

-----------------------------------------------------------------------------
(* api/v1/schedules.py: update_schedule_status *)

(* variant: a confirmed schedule may be reopened *)
valid_transitions_reopen(from) ==
  CASE from = "draft" -> {"reviewing"}
    [] from = "reviewing" -> {"confirmed", "draft"}
    [] from = "confirmed" -> {"draft"}
    [] OTHER -> {}

valid_transitions(from) ==
  CASE from = "draft" -> {"reviewing"}
    [] from = "reviewing" -> {"confirmed", "draft"}
    [] from = "confirmed" -> {}
    [] OTHER -> {}

update_schedule_status(new_status) ==
  /\ Handled
  /\ IF new_status \notin valid_transitions(status)
       THEN /\ response' = [op |-> "update_schedule_status", code |-> 400,
                            requested |-> new_status]
            /\ UNCHANGED <<events, status, assignments, solver_result>>
       ELSE /\ response' = [op |-> "update_schedule_status", code |-> 200,
                            requested |-> new_status]
            /\ status' = new_status
            /\ UNCHANGED <<events, assignments, solver_result>>
  /\ UNCHANGED violations
  /\ last_solve' = <<>>

-----------------------------------------------------------------------------
(* api/v1/assignments.py *)

valid_blocks == {"am", "lunch", "pm", "15", "16", "17", "18plus"}

Existing(data) ==
  { r \in assignments : RowKey(r) = <<data.staff_id, data.date, data.time_block>> }

upsert_assignment(data) ==
  /\ Handled
  /\ LET code == IF status = "confirmed" THEN 403
                 ELSE IF data.time_block \notin valid_blocks THEN 400
                 ELSE IF \E r \in Existing(data) : r.is_locked THEN 409
                 ELSE 200
         updated(r) == [r EXCEPT !.task_type_code = data.task_type_code,
                                 !.status_color = data.status_color,
                                 !.is_locked = data.is_locked,
                                 !.source = data.source]
         created == [staff_id |-> data.staff_id, date |-> data.date,
                     time_block |-> data.time_block,
                     task_type_code |-> data.task_type_code,
                     status_color |-> data.status_color,
                     is_locked |-> data.is_locked, source |-> data.source,
                     event_id |-> None]
     IN  /\ response' = [op |-> "upsert_assignment", code |-> code, data |-> data]
         /\ IF code # 200 THEN UNCHANGED assignments
            ELSE IF Existing(data) # {}
              THEN assignments' = (assignments \ Existing(data))
                                    \cup { updated(r) : r \in Existing(data) }
              ELSE assignments' = assignments \cup {created}
  /\ UNCHANGED <<events, status, solver_result, violations>>
  /\ last_solve' = <<>>

(* target is the row the assignment_id names, or NoRow when no row of this  *)
(* schedule has that id                                                     *)
NoRow == [staff_id |-> 0, date |-> 0, time_block |-> "am", task_type_code |-> None,
          status_color |-> None, is_locked |-> FALSE, source |-> "manual",
          event_id |-> None]

(* variant: the handler without its check of the schedule's status *)
toggle_lock_unchecked(target) ==
  /\ Handled
  /\ LET code == IF target \notin assignments THEN 404 ELSE 200
     IN  /\ response' = [op |-> "toggle_lock", code |-> code, target |-> target]
         /\ IF code # 200 THEN UNCHANGED assignments
            ELSE assignments' = (assignments \ {target})
                                  \cup { [target EXCEPT !.is_locked = ~target.is_locked] }
  /\ UNCHANGED <<events, status, solver_result, violations>>
  /\ last_solve' = <<>>

toggle_lock(target) ==
  /\ Handled
  /\ LET code == IF status = "confirmed" THEN 403
                 ELSE IF target \notin assignments THEN 404 ELSE 200
     IN  /\ response' = [op |-> "toggle_lock", code |-> code, target |-> target]
         /\ IF code # 200 THEN UNCHANGED assignments
            ELSE assignments' = (assignments \ {target})
                                  \cup { [target EXCEPT !.is_locked = ~target.is_locked] }
  /\ UNCHANGED <<events, status, solver_result, violations>>
  /\ last_solve' = <<>>

(* variant: the handler without its check of the lock flag *)
delete_assignment_unlocked(target) ==
  /\ Handled
  /\ LET code == IF status = "confirmed" THEN 403
                 ELSE IF target \notin assignments THEN 404 ELSE 204
     IN  /\ response' = [op |-> "delete_assignment", code |-> code, target |-> target]
         /\ IF code # 204 THEN UNCHANGED assignments
            ELSE assignments' = assignments \ {target}
  /\ UNCHANGED <<events, status, solver_result, violations>>
  /\ last_solve' = <<>>

delete_assignment(target) ==
  /\ Handled
  /\ LET code == IF status = "confirmed" THEN 403
                 ELSE IF target \notin assignments THEN 404
                 ELSE IF target.is_locked THEN 409 ELSE 204
     IN  /\ response' = [op |-> "delete_assignment", code |-> code, target |-> target]
         /\ IF code # 204 THEN UNCHANGED assignments
            ELSE assignments' = assignments \ {target}
  /\ UNCHANGED <<events, status, solver_result, violations>>
  /\ last_solve' = <<>>

-----------------------------------------------------------------------------
(* api/v1/solver.py *)

Presets == <<"A", "B", "C">>

run_solver(clear_unlocked) ==
  /\ Handled
  /\ IF status = "confirmed"
       THEN /\ response' = [op |-> "run_solver", code |-> 403]
            /\ UNCHANGED <<events, status, assignments, solver_result>>
            /\ last_solve' = <<>>
       ELSE \E result \in solve_schedule(_load_solver_data) :
              LET applied == apply_solver_result(assignments, events,
                                                 result.assignments, clear_unlocked)
                  error == IF result.status \in {"OPTIMAL", "FEASIBLE"} THEN applied.error
                           ELSE IF result.status = "NO_STAFF" THEN "ValidationError"
                           ELSE None
                  after == IF result.status \in {"OPTIMAL", "FEASIBLE"}
                             THEN [Store EXCEPT !.assignments = applied.rows,
                                                !.events = applied.events,
                                                !.solver_result = [kind |-> "stats",
                                                                   stats |-> result.stats]]
                             ELSE Store
              IN  /\ Commit(get_db(Store, after, error))
                  /\ last_solve' = <<result>>
                  /\ response' =
                       [op |-> "run_solver", code |-> IF error = None THEN 200 ELSE 500,
                        error |-> error, status |-> result.status,
                        clear_unlocked |-> clear_unlocked,
                        num_assignments |-> IF result.status \in {"OPTIMAL", "FEASIBLE"}
                                              THEN applied.count ELSE 0,
                        kept |-> IF result.status \in {"OPTIMAL", "FEASIBLE"}
                                   THEN applied.kept ELSE {},
                        added |-> IF result.status \in {"OPTIMAL", "FEASIBLE"}
                                    THEN applied.added ELSE <<>>]
  /\ UNCHANGED violations

(* solver_service.py: solve_schedule_multi, one result per preset *)
solve_schedule_multi(data) ==
  IF data.staffs = <<>> THEN {<<>>}
  ELSE LET outcomes == solve_schedule(data)
       IN  { <<a, b, c>> : a \in outcomes, b \in outcomes, c \in outcomes }

run_multi_solver ==
  /\ Handled
  /\ IF status = "confirmed"
       THEN /\ response' = [op |-> "run_multi_solver", code |-> 403]
            /\ UNCHANGED <<events, status, assignments, solver_result>>
            /\ last_solve' = <<>>
       ELSE \E results \in solve_schedule_multi(_load_solver_data) :
              /\ last_solve' = results
              /\ response' = [op |-> "run_multi_solver", code |-> 200,
                              statuses |-> [i \in DOMAIN results |-> results[i].status]]
              /\ IF results = <<>>
                   THEN UNCHANGED solver_result
                   ELSE solver_result' =
                          [kind |-> "multi",
                           multi_solutions |->
                             [i \in DOMAIN results |->
                                [preset |-> Presets[i], status |-> results[i].status,
                                 num_assignments |-> Len(results[i].assignments),
                                 objective_value |-> results[i].stats.objective_value]],
                           solutions_data |->
                             [i \in DOMAIN results |-> results[i].assignments]]
              /\ UNCHANGED <<events, status, assignments>>
  /\ UNCHANGED violations

(* repeats tells that the request repeats the one answered just before: an *)
(* apply_solution of the same preset that was answered 200                  *)
(* variant: every preset reads the list stored for A *)
PresetIndexFirst(preset) == 1

PresetIndex(preset) == CHOOSE i \in DOMAIN Presets : Presets[i] = preset

(* str.upper on the preset names in use *)
Upper(text) ==
  CASE text = "a" -> "A" [] text = "b" -> "B" [] text = "c" -> "C" [] text = "z" -> "Z"
    [] OTHER -> text

apply_solution(requested) ==
  /\ Handled
  /\ LET preset == Upper(requested)
         found == solver_result.kind = "multi" /\ preset \in Range(Presets)
         dicts == IF found THEN solver_result.solutions_data[PresetIndex(preset)] ELSE <<>>
         applied == apply_solver_result(assignments, events, dicts, TRUE)
         code == IF status = "confirmed" THEN 403
                 ELSE IF preset \notin Range(Presets) THEN 400
                 ELSE IF ~found THEN 404
                 ELSE IF applied.error # None THEN 500 ELSE 200
     IN  /\ response' = [op |-> "apply_solution", code |-> code, preset |-> preset,
                         repeats |-> /\ response.op = "apply_solution"
                                     /\ response.code = 200
                                     /\ response.preset = preset,
                         kept |-> IF code \in {200, 500} THEN applied.kept ELSE {},
                         added |-> IF code \in {200, 500} THEN applied.added ELSE <<>>]
         /\ IF code \in {200, 500}
              THEN Commit(get_db(Store,
                                 [Store EXCEPT !.assignments = applied.rows,
                                               !.events = applied.events],
                                 applied.error))
              ELSE UNCHANGED <<events, status, assignments, solver_result>>
  /\ UNCHANGED violations
  /\ last_solve' = <<>>

-----------------------------------------------------------------------------
(* api/v1/events.py: update_event sets the fields the request names on the  *)
(* event the id names (ei = 0: no event has that id); here one field, key,  *)
(* is set to value.  The handler does not look at the schedule's status.    *)

update_event(ei, key, value) ==
  /\ Handled
  /\ IF ei \notin DOMAIN events
       THEN /\ response' = [op |-> "update_event", code |-> 404]
            /\ UNCHANGED events
       ELSE /\ response' = [op |-> "update_event", code |-> 200]
            /\ events' = [events EXCEPT ![ei][key] = value]
  /\ UNCHANGED <<status, assignments, solver_result, violations>>
  /\ last_solve' = <<>>

-----------------------------------------------------------------------------
(* services/validation_service.py.  A violation is a record; type and       *)
(* severity are the source's, check names the check that emitted it, and    *)
(* the remaining fields identify what it is about (0 / None when unused).   *)

Violation(type, severity, check, date, block, staff, rule, about) ==
  [type |-> type, severity |-> severity, check |-> check, affected_date |-> date,
   affected_time_block |-> block, staff |-> staff, rule_id |-> rule, about |-> about]

TaskTypeRow(code) ==
  { master.task_types[i] : i \in { j \in DOMAIN master.task_types :
                                     master.task_types[j].code = code } }

StaffRow(id) ==
  { master.staffs[i] : i \in { j \in DOMAIN master.staffs : j = id } }

_check_duplicates ==
  { Violation("hard", 1000, "duplicate", k[2], k[3], k[1], 0, None) :
      k \in { RowKey(r) : r \in { q \in assignments :
                \E o \in assignments : o # q /\ RowKey(o) = RowKey(q) } } }

_check_skill_requirements ==
  { Violation("hard", 900, "skill", a.date, a.time_block, a.staff_id, 0, None) :
      a \in { r \in assignments :
                \E tt \in TaskTypeRow(r.task_type_code), st \in StaffRow(r.staff_id) :
                   /\ tt.required_skills # {}
                   /\ MissingSkills(tt.required_skills, st.skills) # {} } }

_check_min_staff ==
  LET task_types == { master.task_types[i] :
                        i \in { j \in DOMAIN master.task_types :
                                  /\ master.task_types[j].min_staff > 1
                                  /\ master.task_types[j].is_active } }
      cnt(d, b, code) == Cardinality({ r \in assignments :
                           r.date = d /\ r.time_block = b /\ r.task_type_code = code })
  IN  { Violation("soft", 700, "min_staff", g[1], g[2], 0, 0, g[3]) :
          g \in { <<r.date, r.time_block, r.task_type_code>> :
                    r \in { q \in assignments :
                              \E tt \in task_types :
                                 /\ tt.code = q.task_type_code
                                 /\ cnt(q.date, q.time_block, q.task_type_code)
                                      < tt.min_staff } } }

_check_visit_transport ==
  LET visits == { r \in assignments :
                    \E tt \in TaskTypeRow(r.task_type_code) : tt.location_type = "visit" }
      needs(r, res) == \E tt \in TaskTypeRow(r.task_type_code) :
                          res \in tt.required_resources
  IN  { Violation("hard", 800, "car", r.date, r.time_block, r.staff_id, 0, None) :
          r \in { v \in visits : needs(v, "car")
                                 /\ \E st \in StaffRow(v.staff_id) : ~st.can_drive } }
      \cup
      { Violation("soft", 500, "bicycle", r.date, r.time_block, r.staff_id, 0, None) :
          r \in { v \in visits : needs(v, "bicycle")
                                 /\ \E st \in StaffRow(v.staff_id) : ~st.can_bicycle } }

_check_consecutive_work ==
  LET work_blocks(sid, d) ==
        { r \in assignments : /\ r.staff_id = sid /\ r.date = d
                              /\ r.task_type_code # "off" /\ r.time_block # "lunch" }
  IN  { Violation("soft", 400, "consecutive", p[2], None, p[1], 0, None) :
          p \in { <<r.staff_id, r.date>> :
                    r \in { q \in assignments :
                              /\ q.task_type_code # "off"
                              /\ Cardinality(work_blocks(q.staff_id, q.date)) >= 6 } } }

(* variant: the check reports nothing *)
_check_required_events_skipped == {}

_check_required_events ==
  LET required_events == { events[i] : i \in { j \in DOMAIN events :
                             /\ events[j].schedule_id = ThisSchedule
                             /\ events[j].priority = "required"
                             /\ events[j].status \notin {"hold", "done"} } }
      assigned_event_ids == { r.event_id : r \in assignments } \ {None}
  IN  { Violation("hard", 950, "required_event", 0, None, 0, 0, e.id) :
          e \in { ev \in required_events : ev.id \notin assigned_event_ids } }

_check_event_constraints ==
  LET event_assignments == { r \in assignments : r.event_id # None }
      event_map(id) == { events[i] : i \in { j \in DOMAIN events : events[j].id = id } }
  IN  { Violation("hard", 900, "event_skill", 0, None, p[2], 0, p[1]) :
          p \in { <<a.event_id, a.staff_id>> :
                    a \in { r \in event_assignments :
                              \E e \in event_map(r.event_id) :
                                 /\ e.required_skills # {}
                                 /\ MissingSkills(e.required_skills,
                                      UNION { st.skills : st \in StaffRow(r.staff_id) })
                                      # {} } } }

(* no request creates ResourceBooking rows: the table is empty *)
ResourceBookings == {}

_check_resource_capacity_schedule ==
  { Violation("hard", 850, "resource", g[2], g[3], 0, 0, g[1]) :
      g \in { <<b.resource_id, b.date, b.time_block>> :
                b \in { k \in ResourceBookings :
                          Cardinality({ o \in ResourceBookings :
                             /\ o.resource_id = k.resource_id /\ o.date = k.date
                             /\ o.time_block = k.time_block }) > k.capacity } } }

-----------------------------------------------------------------------------
(* validation_service.py: the rule evaluator.  i is the rule's position in  *)
(* master.rules and stands for its id.                                      *)

RuleSeverity(rule) == IF rule.hard_or_soft = "soft" THEN rule.weight ELSE 1000

StaffNamed(name) ==
  { sid \in { r.staff_id : r \in assignments } :
      \E st \in StaffRow(sid) : st.name = name }

SlotsOf(rows) == { <<r.date, r.time_block>> : r \in rows }

RowsAt(rows, slot) == { r \in rows : r.date = slot[1] /\ r.time_block = slot[2] }

_eval_headcount_rule(i) ==
  LET rule == master.rules[i]
      body == rule.body
      event_code == IF Get(body, "event_code", None) # None
                      THEN body.event_code ELSE Get(body, "task_type_code", None)
      min_staff == Get(body, "min_staff", 0)
      max_staff == Get(body, "max_staff", 0)
      matching == { a \in assignments : a.task_type_code = event_code }
      count(slot) == Cardinality(RowsAt(matching, slot))
  IN  IF event_code = None THEN {}
      ELSE { Violation(rule.hard_or_soft, RuleSeverity(rule), "headcount_min",
                       g[1], g[2], 0, i, event_code) :
               g \in { q \in SlotsOf(matching) : min_staff # 0 /\ count(q) < min_staff } }
           \cup
           { Violation(rule.hard_or_soft, RuleSeverity(rule), "headcount_max",
                       g[1], g[2], 0, i, event_code) :
               g \in { q \in SlotsOf(matching) : max_staff # 0 /\ count(q) > max_staff } }

_eval_availability_rule(i) ==
  LET rule == master.rules[i]
      body == rule.body
      staff_name == Get(body, "staff_name", None)
      blocked_weekdays == Get(body, "blocked_weekdays", {})
      blocked_blocks == Get(body, "blocked_blocks", {})
  IN  IF staff_name = None THEN {}
      ELSE { Violation(rule.hard_or_soft, RuleSeverity(rule), "availability",
                       a.date, a.time_block, a.staff_id, i, staff_name) :
               a \in { r \in assignments :
                         /\ r.staff_id \in StaffNamed(staff_name)
                         /\ r.task_type_code # "off"
                         /\ Weekday(master.ym, r.date) \in blocked_weekdays
                         /\ (blocked_blocks = {} \/ r.time_block \in blocked_blocks) } }

_eval_preference_rule(i) ==
  LET rule == master.rules[i]
      body == rule.body
      preferred_staff == Get(body, "preferred_staff_name", None)
      task_code == Get(body, "task_type_code", None)
      weekday == Get(body, "weekday", -1)
      matching == { a \in assignments : a.task_type_code = task_code }
  IN  IF preferred_staff = None \/ task_code = None THEN {}
      ELSE { Violation("soft", rule.weight, "preference", g[1], g[2], 0, i,
                       preferred_staff) :
               g \in { q \in SlotsOf(matching) :
                         /\ weekday # -1 => Weekday(master.ym, q[1]) = weekday
                         /\ ~\E r \in RowsAt(matching, q) :
                               r.staff_id \in StaffNamed(preferred_staff) } }

_eval_recurring_rule(i) ==
  LET rule == master.rules[i]
      body == rule.body
      weekdays == Get(body, "weekdays", {})
      task_code == Get(body, "task_type_code", None)
      min_staff == Get(body, "min_staff", 0)
      time_blocks == Get(body, "time_blocks", {})
      considered == { a \in assignments :
                        /\ Weekday(master.ym, a.date) \in weekdays
                        /\ (time_blocks = {} \/ a.time_block \in time_blocks) }
      count(slot) == Cardinality({ a \in RowsAt(considered, slot) :
                                     a.task_type_code = task_code })
  IN  IF weekdays = {} \/ task_code = None THEN {}
      ELSE { Violation(rule.hard_or_soft, RuleSeverity(rule), "recurring",
                       g[1], g[2], 0, i, task_code) :
               g \in { q \in SlotsOf(considered) : min_staff # 0 /\ count(q) < min_staff } }

_eval_specific_date_rule(i) ==
  LET rule == master.rules[i]
      body == rule.body
      target_date == Get(body, "date", 0)
      task_code == Get(body, "task_type_code", None)
      min_staff == Get(body, "min_staff", 0)
      required_staff_names == Get(body, "required_staff_names", {})
      time_block == Get(body, "time_block", None)
      matched == { a \in assignments :
                     /\ a.date = target_date
                     /\ (time_block # None => a.time_block = time_block)
                     /\ (task_code # None => a.task_type_code = task_code) }
      assigned_names == { st.name : st \in UNION { StaffRow(a.staff_id) : a \in matched } }
  IN  IF target_date = 0 THEN {}
      ELSE { Violation(rule.hard_or_soft, RuleSeverity(rule), "specific_date_min",
                       target_date, time_block, 0, i, None) :
               u \in { u \in {1} : min_staff # 0 /\ Cardinality(matched) < min_staff } }
           \cup
           { Violation(rule.hard_or_soft, RuleSeverity(rule), "specific_date_staff",
                       target_date, time_block, 0, i, name) :
               name \in { n \in required_staff_names : n \notin assigned_names } }

_evaluate_rule(i) ==
  LET rule_type == master.rules[i].template_type
  IN  CASE rule_type = "headcount" -> _eval_headcount_rule(i)
        [] rule_type = "availability" -> _eval_availability_rule(i)
        [] rule_type = "preference" -> _eval_preference_rule(i)
        [] rule_type = "recurring" -> _eval_recurring_rule(i)
        [] rule_type = "specific_date" -> _eval_specific_date_rule(i)
        [] OTHER -> {}

_check_rules ==
  LET rules == { i \in DOMAIN master.rules : master.rules[i].is_active }
  IN  IF rules = {} \/ assignments = {} THEN {}
      ELSE UNION { _evaluate_rule(i) : i \in rules }

validate_schedule ==
  _check_duplicates
  \cup _check_skill_requirements
  \cup _check_min_staff
  \cup _check_visit_transport
  \cup _check_consecutive_work
  \cup _check_rules
  \cup _check_required_events
  \cup _check_event_constraints
  \cup _check_resource_capacity_schedule

(* api/v1/violations.py: check_violations replaces the stored violations;   *)
(* at records the request count at which they were computed                 *)
check_violations ==
  /\ violations' = [at |-> ops, found |-> validate_schedule]
  /\ UNCHANGED <<master, events, status, assignments, solver_result, response,
                 last_solve, ops>>

-----------------------------------------------------------------------------
(* Master data.  The rows are built as the models declare them              *)
(* (models/staff.py, task_type.py, rule.py, event.py, resource.py); the     *)
(* task types follow core/init_db.py.                                       *)

Staff(name, employment_type, can_drive, can_bicycle, skills) ==
  [name |-> name, employment_type |-> employment_type, can_drive |-> can_drive,
   can_bicycle |-> can_bicycle, skills |-> skills]

TaskType(code, default_blocks, required_skills, required_resources, min_staff, location_type) ==
  [code |-> code, default_blocks |-> default_blocks, required_skills |-> required_skills,
   required_resources |-> required_resources, min_staff |-> min_staff,
   location_type |-> location_type, is_active |-> TRUE]

Rule(template_type, hard_or_soft, weight, body) ==
  [template_type |-> template_type, hard_or_soft |-> hard_or_soft, weight |-> weight,
   body |-> body, is_active |-> TRUE]

Event(id, type_code, duration_hours, tc_type, tc_data, required_skills, required_resources, priority) ==
  [id |-> id, type_code |-> type_code, duration_hours |-> duration_hours,
   time_constraint_type |-> tc_type, time_constraint_data |-> tc_data,
   required_skills |-> required_skills, required_resources |-> required_resources,
   priority |-> priority, status |-> "unassigned", schedule_id |-> ThisSchedule]

Resource(type, capacity) == [type |-> type, capacity |-> capacity, is_active |-> TRUE]

Row(staff_id, date, time_block, task_type_code, status_color, is_locked, source) ==
  [staff_id |-> staff_id, date |-> date, time_block |-> time_block,
   task_type_code |-> task_type_code, status_color |-> status_color,
   is_locked |-> is_locked, source |-> source, event_id |-> None]

(* active staff in name order; the first NumStaff of them are on the roster *)
StaffPool ==
  << Staff("Fujita", "full_time", TRUE, TRUE, {"PSW", "CP"}),
     Staff("Koishi", "part_time", FALSE, FALSE, {}),
     Staff("Yagi", "full_time", FALSE, FALSE, {"NURSE"}) >>

Staffs == SubSeq(StaffPool, 1, NumStaff)

daycare == TaskType("daycare", {"am", "pm"}, {}, {}, 2, "in_clinic")
visit_nurse == TaskType("visit_nurse", {"am"}, {"NURSE"}, {"bicycle"}, 1, "visit")
visit_home == TaskType("visit_home", {"am"}, {}, {"car"}, 1, "visit")
interview == TaskType("interview", {"am"}, {"CP"}, {}, 1, "in_clinic")
meeting == TaskType("meeting", {"16"}, {}, {}, 1, "in_clinic")
off == TaskType("off", {"am", "lunch", "pm", "15", "16", "17", "18plus"}, {}, {}, 1,
                "in_clinic")

(* a program that asks for one more staff member than the clinic has *)
daycare_large == TaskType("daycare", {"am"}, {}, {}, NumStaff + 1, "in_clinic")

August == [month |-> 8, first_weekday |-> 4]
November == [month |-> 11, first_weekday |-> 5]

Fixed(date, start) == [date |-> date, start |-> start]

Master(task_types, rules, resources, ym) ==
  [staffs |-> Staffs, task_types |-> task_types, rules |-> rules,
   resources |-> resources, ym |-> ym]

NeverChecked == [at |-> -1, found |-> {}]

-----------------------------------------------------------------------------
(* The life of one schedule.  create_schedule (api/v1/schedules.py) makes   *)
(* it a draft without rows; one required event is bound to it.  No staff    *)
(* member holds the NURSE skill, so the solver's only freedom is the        *)
(* placement of the event.                                                  *)

FlowMaster == Master(<<visit_nurse>>, <<>>, <<>>, August)

FlowEvents ==
  << Event("E1", "visit_nurse", 1, "fixed", Fixed(1, 9), {"PSW"}, {}, "required") >>

(* request bodies of upsert_assignment (schemas/schedule.py: AssignmentBase); *)
(* task_type_code is a foreign key, so it names a task type or is None        *)
UpsertInputs ==
  { Row(1, 1, "am", None, "pre_work", TRUE, "manual"),
    Row(1, 1, "am", "visit_nurse", None, FALSE, "manual"),
    Row(2, 1, "pm", None, "post_work", TRUE, "manual"),
    Row(2, 1, "night", None, "off", FALSE, "manual") }

StatusInputs == {"draft", "reviewing", "confirmed"}

PresetInputs == {"A", "B", "c", "Z"}

create_schedule ==
  /\ status = "draft"
  /\ assignments = {}
  /\ solver_result = NoResult

Init ==
  /\ create_schedule
  /\ master = FlowMaster
  /\ events = FlowEvents
  /\ violations = NeverChecked
  /\ response = [op |-> "create_schedule", code |-> 201]
  /\ last_solve = <<>>
  /\ ops = 0

Next ==
  \/ \E new_status \in StatusInputs : update_schedule_status(new_status)
  \/ \E data \in UpsertInputs : upsert_assignment(data)
  \/ \E target \in assignments \cup {NoRow} : toggle_lock(target)
  \/ \E target \in assignments \cup {NoRow} : delete_assignment(target)
  \/ \E clear_unlocked \in BOOLEAN : run_solver(clear_unlocked)
  \/ run_multi_solver
  \/ \E preset \in PresetInputs : apply_solution(preset)

Spec == Init /\ [][Next]_vars

-----------------------------------------------------------------------------
(* One solver run on a schedule in use.  A snapshot names the master data,  *)
(* the events bound to the schedule and the rows already on the schedule;   *)
(* the run is the last request handled, followed by a validation.           *)

Snapshot(task_types, rules, resources, ym, evs, rows) ==
  [master |-> Master(task_types, rules, resources, ym), events |-> evs, rows |-> rows]

Range_(period, month) == [period |-> period, month |-> month]

(* events: a nurse visit in the morning; a home visit needing a car; an      *)
(* evening meeting; a second home visit; an interview some weekday morning;  *)
(* an interview on an unreadable date; an optional interview in a room with  *)
(* two candidate starts; an interview wanted in September; an interview that *)
(* needs a skill nobody on the staff holds                                   *)
E_nurse == Event("E1", "visit_nurse", 1, "fixed", Fixed(1, 9), {}, {}, "required")
E_home == Event("E2", "visit_home", 1, "fixed", Fixed(1, 9), {}, {"car"}, "high")
E_meeting == Event("E3", "meeting", 2, "fixed", Fixed(1, 16), {}, {}, "required")
E_home2 == Event("E4", "visit_home", 1, "fixed", Fixed(1, 9), {}, {"car"}, "medium")
E_interview == Event("E5", "interview", 1, "range", Range_("am", 0), {"CP"}, {}, "required")
E_elsewhere == Event("E6", "interview", 1, "fixed", Fixed(BadDate, 9), {"CP"}, {}, "required")
E_september == Event("E8", "interview", 1, "range", Range_("am", 9), {"CP"}, {}, "required")
E_therapy == Event("E9", "interview", 1, "fixed", Fixed(1, 9), {"OT"}, {}, "required")
E_twice == Event("E7", "interview", 4, "candidates",
                 [slots |-> <<Fixed(1, 9), Fixed(1, 13)>>], {}, {"room"}, "low")

(* events the solver must not see: one done, one bound to another schedule, *)
(* one on hold                                                              *)
OtherSchedule == "other"

E_done == [Event("E2", "visit_nurse", 1, "fixed", Fixed(1, 12), {"PSW"}, {}, "high")
             EXCEPT !.status = "done"]

E_theirs == [Event("E3", "visit_nurse", 1, "fixed", Fixed(1, 13), {"PSW"}, {}, "high")
               EXCEPT !.status = "assigned", !.schedule_id = OtherSchedule]

(* a required interview whose only candidate start is listed twice *)
E_same == Event("E11", "interview", 1, "candidates",
                [slots |-> <<Fixed(1, 9), Fixed(1, 9)>>], {}, {}, "required")

E_held == [Event("E10", "visit_nurse", 1, "fixed", Fixed(1, 15), {}, {}, "required")
             EXCEPT !.status = "hold"]

HeadcountRule(hard_or_soft, code, min_staff) ==
  Rule("headcount", hard_or_soft, 1000, [task_type_code |-> code, min_staff |-> min_staff])

RecurringRule(hard_or_soft, weekdays, code, min_staff, time_blocks) ==
  Rule("recurring", hard_or_soft, 300,
       [weekdays |-> weekdays, task_type_code |-> code, min_staff |-> min_staff,
        time_blocks |-> time_blocks])

AvailabilityRule(hard_or_soft, staff_name, weekdays) ==
  Rule("availability", hard_or_soft, 600,
       [staff_name |-> staff_name, blocked_weekdays |-> weekdays, blocked_blocks |-> {}])

Snapshots ==
  { Snapshot(<<visit_nurse>>, <<>>, <<>>, August, <<E_nurse>>, {}),
    Snapshot(<<visit_nurse, visit_home>>, <<>>, <<>>, August, <<E_home, E_home2>>, {}),
    Snapshot(<<visit_home>>, <<>>, <<Resource("car", 1)>>, August, <<E_home, E_home2>>, {}),
    Snapshot(<<meeting>>, <<>>, <<>>, August, <<E_meeting>>, {}),
    Snapshot(<<interview>>, <<>>, <<>>, August, <<E_interview>>, {}),
    Snapshot(<<interview>>, <<>>, <<>>, August, <<E_september>>, {}),
    Snapshot(<<daycare, visit_nurse>>, <<>>, <<>>, November, <<E_nurse>>, {}),
    Snapshot(<<meeting>>, <<AvailabilityRule("hard", "Fujita", {4})>>, <<>>, August,
             <<>>, {}),
    Snapshot(<<interview>>, <<>>, <<>>, August, <<E_elsewhere>>, {}),
    Snapshot(<<interview>>, <<>>, <<Resource("room", 1)>>, August, <<E_twice, E_interview>>,
             { Row(1, 1, "pm", "interview", None, TRUE, "manual") }),
    Snapshot(<<daycare>>, <<HeadcountRule("hard", "daycare", 1)>>, <<>>, August, <<>>,
             { Row(2, 1, "am", None, "off", TRUE, "manual"),
               Row(1, 1, "16", "daycare", None, FALSE, "solver") }),
    Snapshot(<<meeting, off>>, <<AvailabilityRule("hard", "Fujita", {4})>>, <<>>, August,
             <<>>, { Row(1, 1, "am", None, "off", TRUE, "manual") }),
    Snapshot(<<meeting>>, <<>>, <<>>, August, <<>>,
             { Row(2, 1, "16", "meeting", None, TRUE, "manual") }),
    [Snapshot(<<meeting>>, <<>>, <<>>, August, <<E_meeting>>, {})
       EXCEPT !.master.staffs = <<>>],
    Snapshot(<<interview>>, <<>>, <<>>, August, <<E_therapy>>, {}),
    Snapshot(<<visit_nurse>>, <<>>, <<>>, August, <<E_nurse, E_done, E_theirs, E_held>>, {}),
    Snapshot(<<interview>>, <<>>, <<>>, August, <<E_same>>, {}),
    Snapshot(<<visit_nurse>>, <<RecurringRule("soft", {4}, "visit_nurse", 1, {"am"})>>, <<>>,
             August, <<E_nurse>>, { Row(2, 1, "pm", None, "off", TRUE, "manual") }),
    Snapshot(<<daycare_large>>, <<>>, <<>>, August, <<>>, {}) }

SolveInit ==
  /\ \E snapshot \in Snapshots :
        /\ master = snapshot.master
        /\ events = snapshot.events
        /\ assignments = snapshot.rows
  /\ status = "draft"
  /\ solver_result = NoResult
  /\ violations = NeverChecked
  /\ response = [op |-> "create_schedule", code |-> 201]
  /\ last_solve = <<>>
  /\ ops = MaxOps - 1

SolveNext ==
  \/ \E clear_unlocked \in BOOLEAN : run_solver(clear_unlocked)
  \/ check_violations

SolveSpec == SolveInit /\ [][SolveNext]_vars

-----------------------------------------------------------------------------
(* The helpers of solver_service.py called on their own: a call leaves the  *)
(* store alone and its arguments and return value are the reply.            *)

SpanCall(start_bi, duration_hours) ==
  /\ response' = [op |-> "_event_blocks_for_duration", start_bi |-> start_bi,
                  duration_hours |-> duration_hours,
                  blocks |-> _event_blocks_for_duration(start_bi, duration_hours)]
  /\ UNCHANGED <<master, events, status, assignments, solver_result, violations,
                 last_solve, ops>>

(* time constraints handed to _expand_event_slots: fixed payloads with a    *)
(* date in or after the month, missing or unreadable, and a start hour in   *)
(* or outside the table or missing; candidate lists of two payloads         *)
FixedPayloads ==
  { Fixed(d, h) : d \in {1, NumDates + 1, NoDate, BadDate}, h \in {9, 10, 13, 18, NoHour} }

CandidatePayloads ==
  { [slots |-> <<p, q>>] : p, q \in {Fixed(1, 9), Fixed(1, 13), Fixed(BadDate, 9)} }

SlotInputs ==
  { Event("E0", "interview", 1, "fixed", tc_data, {}, {}, "required") :
      tc_data \in FixedPayloads }
  \cup { Event("E0", "interview", 1, "candidates", tc_data, {}, {}, "required") :
           tc_data \in CandidatePayloads }

SlotsCall(event) ==
  /\ response' = [op |-> "_expand_event_slots", event |-> event,
                  allowed |-> _expand_event_slots(event, master.ym)]
  /\ UNCHANGED <<master, events, status, assignments, solver_result, violations,
                 last_solve, ops>>

HelperInit ==
  /\ create_schedule
  /\ master = FlowMaster
  /\ events = <<>>
  /\ violations = NeverChecked
  /\ response = [op |-> "create_schedule", code |-> 201]
  /\ last_solve = <<>>
  /\ ops = 0

HelperNext ==
  \/ \E start_bi \in BlockIdx, duration_hours \in 1 .. MaxDuration :
        SpanCall(start_bi, duration_hours)
  \/ \E event \in SlotInputs : SlotsCall(event)

HelperSpec == HelperInit /\ [][HelperNext]_vars

-----------------------------------------------------------------------------
(* Solving and applying while events are edited.  The schedule has one      *)
(* required event to place; a second event is bound to it but done, and a   *)
(* third is assigned on another schedule.                                   *)

EditEvents == FlowEvents \o <<E_done, E_theirs>>

(* request bodies of update_event (schemas/event.py: EventUpdate) *)
EventInputs ==
  { <<"status", "hold">>, <<"status", "unassigned">>, <<"schedule_id", ThisSchedule>> }

EditInit ==
  /\ create_schedule
  /\ master = FlowMaster
  /\ events = EditEvents
  /\ violations = NeverChecked
  /\ response = [op |-> "create_schedule", code |-> 201]
  /\ last_solve = <<>>
  /\ ops = 0

EditNext ==
  \/ \E ei \in DOMAIN events \cup {0}, body \in EventInputs :
        update_event(ei, body[1], body[2])
  \/ \E clear_unlocked \in BOOLEAN : run_solver(clear_unlocked)
  \/ run_multi_solver
  \/ \E preset \in PresetInputs : apply_solution(preset)

EditSpec == EditInit /\ [][EditNext]_vars

-----------------------------------------------------------------------------
(* Properties of the schedule's life, checked under Spec *)

MutatingOps == {"upsert_assignment", "delete_assignment", "toggle_lock", "run_solver",
                "run_multi_solver", "apply_solution"}

(* C1: on a confirmed schedule every upsert_assignment, delete_assignment,  *)
(* toggle_lock, run_solver, run_multi_solver and apply_solution request is  *)
(* answered 403 (Forbidden), and no request changes the assignment rows     *)
(* (lock flags included), the event statuses or solver_result.              *)
C1_ConfirmedIsFrozen ==
  [][status = "confirmed" =>
       /\ response'.op \in MutatingOps => response'.code = 403
       /\ assignments' = assignments
       /\ events' = events
       /\ solver_result' = solver_result]_vars

(* a lock toggle refused on a confirmed schedule that holds a locked row *)
C1_Witness ==
  /\ status = "confirmed"
  /\ response.op = "toggle_lock" /\ response.code = 403
  /\ response.target \in assignments /\ response.target.is_locked

(* C2: a schedule starts as a draft; the status changes only along          *)
(* draft -> reviewing, reviewing -> confirmed and reviewing -> draft; every  *)
(* other requested transition is answered 400 and leaves the status as it   *)
(* is; a confirmed schedule stays confirmed.                                *)
AllowedTransitions ==
  { <<"draft", "reviewing">>, <<"reviewing", "confirmed">>, <<"reviewing", "draft">> }

C2_StatusTransitions ==
  /\ status = "draft"
  /\ [][/\ status' # status =>
             /\ <<status, status'>> \in AllowedTransitions
             /\ response'.op = "update_schedule_status"
             /\ response'.requested = status'
        /\ (response'.op = "update_schedule_status"
            /\ <<status, response'.requested>> \notin AllowedTransitions) =>
             (response'.code = 400 /\ status' = status)
        /\ (response'.op = "update_schedule_status"
            /\ <<status, response'.requested>> \in AllowedTransitions) =>
             (response'.code = 200 /\ status' = response'.requested)
        /\ status = "confirmed" => status' = "confirmed"]_vars

(* a request to reopen a confirmed schedule was refused *)
C2_Witness ==
  /\ status = "confirmed"
  /\ response.op = "update_schedule_status"
  /\ response.requested = "draft" /\ response.code = 400

Applied ==
  /\ response.op \in {"run_solver", "apply_solution"}
  /\ response.code \in {200, 500}

(* C3: after run_solver or apply_solution no two rows of the schedule share *)
(* (staff, date, block), and apply_solver_result never inserts a row whose  *)
(* key is that of a row that survived the clearing step or of another row   *)
(* inserted by the same call.                                               *)
C3_NoDuplicateKey ==
  /\ \A r1, r2 \in assignments : RowKey(r1) = RowKey(r2) => r1 = r2
  /\ Applied => uq_assignment(response.kept, response.added)

(* C4: a row that is locked when run_solver or apply_solution is called is  *)
(* on the schedule afterwards with the same staff, date, block, task code,  *)
(* status color and lock flag.                                              *)
C4_LockedRowsKept ==
  [][response'.op \in {"run_solver", "apply_solution"} =>
       \A r \in assignments : r.is_locked => r \in assignments']_vars

(* a solver run that clears unlocked rows inserted rows on a schedule that   *)
(* holds a locked row                                                       *)
C4_Witness ==
  /\ response.op = "run_solver" /\ response.code = 200
  /\ response.clear_unlocked
  /\ response.added # <<>>
  /\ \E r \in assignments : r.is_locked
  /\ \E r \in assignments : r.source = "solver"

(* C12: apply_solution of a preset, repeated with no request in between,    *)
(* is answered 200 again and leaves the same assignment rows (keys, task    *)
(* codes, event ids, lock flags, source) and the same event statuses.       *)
C12_ApplyIdempotent ==
  [][(/\ response.op = "apply_solution" /\ response.code = 200
      /\ response'.op = "apply_solution" /\ response'.preset = response.preset)
       => /\ response'.code = 200
          /\ assignments' = assignments
          /\ events' = events]_vars

(* a preset that places the event was applied twice in a row to a schedule  *)
(* that holds a locked row                                                  *)
C12_Witness ==
  /\ response.op = "apply_solution" /\ response.code = 200 /\ response.repeats
  /\ response.added # <<>>
  /\ \E r \in assignments : r.is_locked
  /\ \E r \in assignments : r.source = "solver" /\ r.event_id # None

(* C13: when apply_solver_result fails after its clearing step (the request *)
(* is answered 500), the assignment rows, the event statuses and            *)
(* solver_result are what they were before the request.                     *)
C13_AllOrNothing ==
  [][(response'.op \in {"run_solver", "apply_solution"} /\ response'.code = 500)
       => /\ assignments' = assignments
          /\ events' = events
          /\ solver_result' = solver_result]_vars

(* an insert failed after the clearing step had deleted an unlocked row,    *)
(* and the row is on the schedule                                           *)
C13_Witness ==
  /\ response.op \in {"run_solver", "apply_solution"} /\ response.code = 500
  /\ response.added # <<>>
  /\ \E r \in assignments : ~r.is_locked /\ r \notin response.kept

(* the reply to a request that tries to overwrite or delete the row r *)
Touches(reply, r) ==
  \/ /\ reply.op = "upsert_assignment"
     /\ <<reply.data.staff_id, reply.data.date, reply.data.time_block>> = RowKey(r)
  \/ reply.op = "delete_assignment" /\ reply.target = r

(* a locked row leaves the schedule or changes only by a toggle_lock on it *)
OnlyToggleUnlocks(r) ==
  r \notin assignments' =>
    /\ response'.op = "toggle_lock" /\ response'.code = 200 /\ response'.target = r
    /\ [r EXCEPT !.is_locked = FALSE] \in assignments'

(* C20 as stated: while a row is locked, no request changes or removes it   *)
(* except a toggle_lock on it, and an upsert on its (staff, date, block) or *)
(* a delete of it is answered 409 (Conflict).                               *)
C20_LockedRowConflict ==
  [][\A r \in assignments :
       r.is_locked =>
         /\ OnlyToggleUnlocks(r)
         /\ Touches(response', r) => response'.code = 409]_vars

(* C20 amended: the same, with the upsert or delete answered 409 (Conflict) *)
(* on a schedule that is not confirmed and 403 (Forbidden) on a confirmed   *)
(* one.                                                                     *)
C20_LockedRowRefused ==
  [][\A r \in assignments :
       r.is_locked =>
         /\ OnlyToggleUnlocks(r)
         /\ Touches(response', r) =>
              response'.code = IF status = "confirmed" THEN 403 ELSE 409]_vars

(* a delete of a locked row was refused with 409 and the row is there *)
C20_Witness ==
  /\ response.op = "delete_assignment" /\ response.code = 409
  /\ response.target \in assignments /\ response.target.is_locked

(* Stored solutions, checked under Spec *)

StoredList(preset) ==
  solver_result.solutions_data[CHOOSE i \in 1 .. 3 : <<"A", "B", "C">>[i] = preset]

NothingChanges ==
  /\ assignments' = assignments /\ events' = events
  /\ status' = status /\ solver_result' = solver_result

(* run_multi_solver stores the three lists it was returned and touches      *)
(* nothing else; the stored lists stay until a single run stores its stats  *)
MultiSolveStores ==
  /\ response'.op = "run_multi_solver" =>
       /\ assignments' = assignments /\ events' = events /\ status' = status
       /\ response'.code = 200 =>
            /\ solver_result'.kind = "multi"
            /\ \A i \in 1 .. 3 : solver_result'.solutions_data[i] = last_solve'[i].assignments
  /\ response'.op = "run_solver" =>
       \/ solver_result' = solver_result
       \/ /\ solver_result'.kind = "stats" /\ response'.code = 200
          /\ response'.status \in {"OPTIMAL", "FEASIBLE"}
  /\ response'.op \notin {"run_multi_solver", "run_solver"} => solver_result' = solver_result

(* apply_solution(P) on stored lists inserts the rows of the list stored    *)
(* for P, after clearing the unlocked rows                                  *)
AppliesStoredList ==
  LET added == [i \in DOMAIN StoredList(response'.preset) |->
                  NewRow(StoredList(response'.preset)[i])]
  IN  /\ response'.code \in {200, 500}
      /\ response'.added = added
      /\ response'.code = 200 =>
           /\ assignments' = { r \in assignments : r.is_locked } \cup Range(added)
           /\ solver_result' = solver_result /\ status' = status

StoredStatus(preset) ==
  solver_result.multi_solutions[CHOOSE i \in 1 .. 3 : <<"A", "B", "C">>[i] = preset].status

(* C30: apply_solution of a preset whose stored solve status is not OPTIMAL *)
(* or FEASIBLE (its stored list is empty) deletes no row and resets no      *)
(* event status.                                                            *)
C30_UnsolvedPresetIsNoOp ==
  [][(/\ response'.op = "apply_solution" /\ response'.preset \in {"A", "B", "C"}
      /\ solver_result.kind = "multi"
      /\ StoredStatus(response'.preset) \notin {"OPTIMAL", "FEASIBLE"})
       => (assignments' = assignments /\ events' = events)]_vars

-----------------------------------------------------------------------------
(* Properties of the solver's output, checked under SolveSpec *)

Solved(result) == result.status \in {"OPTIMAL", "FEASIBLE"}

Results == { last_solve[i] : i \in DOMAIN last_solve }

Output(result) == Range(result.assignments)

Placements(result, ei) == { k \in result.placed : k[1] = ei }

SpanCovered(result, k) ==
  \A span_bi \in Range(EventSpan(result, k[1], k[4])) :
     \E a \in Output(result) :
        /\ a.event_id = result.events[k[1]].id
        /\ a.staff_id = k[2] /\ a.date = k[3] /\ a.time_block = BlockAt(span_bi)

(* C5: when the solver returns OPTIMAL or FEASIBLE, every required event of *)
(* the snapshot has exactly one placement and the output carries one        *)
(* assignment with its event_id for every block of the span; a required     *)
(* event that cannot be placed makes the status INFEASIBLE instead.         *)
C5_RequiredEventsPlaced ==
  \A result \in Results :
     Solved(result) =>
       \A ei \in DOMAIN result.events :
          result.events[ei].priority = "required" =>
            /\ Cardinality(Placements(result, ei)) = 1
            /\ \A k \in Placements(result, ei) : SpanCovered(result, k)

(* C6: in the solver's output, an assignment whose task type has required   *)
(* skills is given to a staff member who holds every one of them.           *)
C6_OutputSkills ==
  \A result \in Results : \A a \in Output(result) :
     \A tt \in TaskTypeRow(a.task_type_code), st \in StaffRow(a.staff_id) :
        tt.required_skills # {} => MissingSkills(tt.required_skills, st.skills) = {}

(* C7: in the solver's output, an assignment of a visit task that requires  *)
(* a car goes to a staff member who can drive, and one that requires a      *)
(* bicycle to a staff member who can cycle.                                 *)
C7_OutputTransport ==
  \A result \in Results : \A a \in Output(result) :
     \A tt \in TaskTypeRow(a.task_type_code), st \in StaffRow(a.staff_id) :
        tt.location_type = "visit" =>
          /\ "car" \in tt.required_resources => st.can_drive
          /\ "bicycle" \in tt.required_resources => st.can_bicycle

(* C8: the solver's output holds no assignment of a part-time staff member  *)
(* in the blocks 15, 16, 17 and 18plus.                                     *)
C8_PartTimeNotLate ==
  \A result \in Results : \A a \in Output(result) :
     \A st \in StaffRow(a.staff_id) :
        st.employment_type = "part_time" => a.time_block \notin LateBlocks

PlacedOn(result, res_type, di, bi) ==
  { k \in result.placed :
      /\ res_type \in result.events[k[1]].required_resources
      /\ k[3] = di
      /\ bi \in Range(EventSpan(result, k[1], k[4])) }

(* C9: in every solver solution, for every resource type some event         *)
(* requires and every (date, block), the placed events that require it and  *)
(* cover that block number at most the summed capacity of the active        *)
(* resources of that type (0 when there is none).                           *)
C9_ResourceCapacity ==
  \A result \in Results :
     Solved(result) =>
       \A ei \in DOMAIN result.events :
          \A res_type \in result.events[ei].required_resources :
             \A di \in Dates, bi \in BlockIdx :
                Cardinality(PlacedOn(result, res_type, di, bi))
                  <= total_capacity(result, res_type)

(* C10: after a solver run that returned OPTIMAL or FEASIBLE and was        *)
(* applied with clear_unlocked to a schedule without locked rows, the       *)
(* validator reports no violation of type hard.                             *)
C10_NoHardViolation ==
  ( /\ response.op = "run_solver" /\ response.code = 200
    /\ response.status \in {"OPTIMAL", "FEASIBLE"}
    /\ response.clear_unlocked
    /\ \A r \in assignments : ~r.is_locked
    /\ violations.at = ops )
  => \A v \in violations.found : v.type # "hard"

-----------------------------------------------------------------------------
(* Properties of applying while events are edited, checked under EditSpec *)

(* apply_solver_result ran and returned *)
ApplyReturned(reply) ==
  \/ reply.op = "apply_solution" /\ reply.code = 200
  \/ reply.op = "run_solver" /\ reply.code = 200
       /\ reply.status \in {"OPTIMAL", "FEASIBLE"}

AppliedEventIds(reply) == { reply.added[i].event_id : i \in DOMAIN reply.added } \ {None}

(* C11: after apply_solver_result returns, an event whose id is an event_id *)
(* of the applied list is assigned; any other event bound to the schedule   *)
(* that was unassigned or assigned is unassigned; every other event keeps   *)
(* its status.                                                              *)
C11_EventStatusSync ==
  [][ApplyReturned(response') =>
       \A i \in DOMAIN events :
          events'[i].status =
            IF events[i].id \in AppliedEventIds(response') THEN "assigned"
            ELSE IF events[i].schedule_id = ThisSchedule
                    /\ events[i].status \in {"unassigned", "assigned"} THEN "unassigned"
            ELSE events[i].status]_vars

(* the staff whose cell (di, block) carries task code in the solution: the  *)
(* output has a task assignment for it, or a locked row fixes the cell to   *)
(* the task                                                                 *)
StaffOnTask(result, code, di, block) ==
  { si \in DOMAIN master.staffs :
      \/ \E a \in Output(result) :
            /\ a.event_id = None /\ a.task_type_code = code
            /\ a.staff_id = si /\ a.date = di /\ a.time_block = block
      \/ \E r \in assignments :
            /\ r.is_locked /\ r.staff_id = si /\ r.date = di /\ r.time_block = block
            /\ LockedTarget(_load_solver_data, r) # 0
            /\ LockedTarget(_load_solver_data, r) = tt_index(_load_solver_data, code) }

HardHeadcountRules ==
  { r \in Range(master.rules) :
      /\ r.is_active /\ r.template_type = "headcount" /\ r.hard_or_soft = "hard"
      /\ Get(r.body, "task_type_code", None) # None
      /\ Get(r.body, "min_staff", 0) >= 1 }

(* C14: for every active hard headcount rule naming an active task type t   *)
(* with min_staff m, a solution returned as OPTIMAL or FEASIBLE has, on      *)
(* every Monday-to-Friday date and every block of t's default_blocks, at     *)
(* least m staff whose cell is assigned t.                                   *)
C14_HardHeadcount ==
  \A result \in Results :
     Solved(result) =>
       \A r \in HardHeadcountRules :
          \A tt \in { t \in TaskTypeRow(r.body.task_type_code) : t.is_active } :
             \A di \in Dates, block \in tt.default_blocks :
                Weekday(master.ym, di) < 5 =>
                  Cardinality(StaffOnTask(result, tt.code, di, block)) >= r.body.min_staff

(* a solution was returned under a hard headcount rule and its output puts  *)
(* a staff member on the rule's task                                        *)
C14_Witness ==
  /\ \E result \in Results :
        /\ Solved(result)
        /\ \E r \in HardHeadcountRules : \E a \in Output(result) :
              a.event_id = None /\ a.task_type_code = r.body.task_type_code
  /\ \E di \in Dates : Weekday(master.ym, di) < 5

(* the locked rows that put a part-time staff member in a late block *)
LateLocks(data) ==
  { la \in data.locked :
      /\ la.staff_id \in StaffIdx(data)
      /\ data.staffs[la.staff_id].employment_type = "part_time"
      /\ la.time_block \in LateBlocks }

(* C15: when a part-time staff member has a locked row in a late block and  *)
(* the model has a solution without that lock, the solver does not answer   *)
(* INFEASIBLE, the locked row stays on the schedule, and the output has no  *)
(* assignment of a part-time staff member in a late block.                  *)
C15_LateLockHonored ==
  \A result \in Results :
     LET data == _load_solver_data
     IN  LateLocks(data) # {} =>
           /\ Solutions([data EXCEPT !.locked = @ \ LateLocks(data)]) # {}
                 => result.status # "INFEASIBLE"
           /\ LateLocks(data) \subseteq assignments
           /\ \A a \in Output(result) : \A st \in StaffRow(a.staff_id) :
                 st.employment_type = "part_time" => a.time_block \notin LateBlocks

(* the non-required events that require res_type and whose only allowed    *)
(* slot is (di, bi)                                                         *)
Rivals(data, res_type, di, bi) ==
  { ei \in DOMAIN data.events :
      /\ data.events[ei].priority # "required"
      /\ res_type \in data.events[ei].required_resources
      /\ event_allowed_slots(data, ei) = << <<di, bi>> >> }

PriorityPenalty(priority) ==
  CASE priority = "high" -> 800 [] priority = "medium" -> 400 [] priority = "low" -> 100

Unplaced(data, placed) ==
  { ei \in DOMAIN data.events :
      /\ event_allowed_slots(data, ei) # <<>>
      /\ \A k \in placed : k[1] # ei }

UnplacedPenalty(data, placed) ==
  SumFn([ei \in Unplaced(data, placed) |-> PriorityPenalty(data.events[ei].priority)])

(* C16: on a schedule without locked rows, rules or task types with         *)
(* min_staff above 1 whose events are all non-required: the solver does not *)
(* answer INFEASIBLE; of the events that require one resource type and can  *)
(* only go to one (date, block), at most the summed capacity of the type is *)
(* placed when they outnumber it; the objective is the sum of the priority  *)
(* penalties (high 800, medium 400, low 100) of the unplaced events; and an *)
(* OPTIMAL result leaves unplaced a set of least total penalty.             *)
C16_RivalEvents ==
  \A result \in Results :
     LET data == _load_solver_data
     IN  ( /\ data.events # <<>>
           /\ \A ei \in DOMAIN data.events : data.events[ei].priority # "required"
           /\ data.locked = {} /\ data.rules = <<>> /\ ShortfallSlots(data) = {} )
         => /\ result.status # "INFEASIBLE"
            /\ Solved(result) =>
                 /\ \A ei \in DOMAIN data.events :
                       \A res_type \in data.events[ei].required_resources :
                          \A di \in Dates, bi \in BlockIdx :
                             LET rivals == Rivals(data, res_type, di, bi)
                                 c == total_capacity(data, res_type)
                             IN  Cardinality(rivals) > c =>
                                   Cardinality({ r \in rivals :
                                                   Placements(result, r) # {} }) <= c
                 /\ result.stats.objective_value = UnplacedPenalty(data, result.placed)
            /\ result.status = "OPTIMAL" =>
                 \A sol \in Solutions(data) :
                    result.stats.objective_value <= UnplacedPenalty(data, sol.ev)

(* C17: when solve_schedule ends with a status other than OPTIMAL or        *)
(* FEASIBLE it returns an empty assignment list, and run_solver answers 200 *)
(* with that status and leaves the assignment rows, the event statuses and  *)
(* solver_result as they were.                                              *)
C17_UnsolvedIsNormal ==
  [][response'.op = "run_solver" =>
       \A i \in DOMAIN last_solve' :
          ~Solved(last_solve'[i]) =>
            /\ last_solve'[i].assignments = <<>>
            /\ response'.code = 200
            /\ response'.status = last_solve'[i].status
            /\ assignments' = assignments
            /\ events' = events
            /\ solver_result' = solver_result]_vars

EventOf(result, id) == { e \in Range(result.events) : e.id = id }

(* the required events with an allowed slot whose required skills no staff  *)
(* member holds, when there is staff to build a model for                   *)
Unstaffable(data) ==
  { ei \in DOMAIN data.events :
      /\ data.staffs # <<>>
      /\ data.events[ei].priority = "required"
      /\ event_allowed_slots(data, ei) # <<>>
      /\ \A si \in StaffIdx(data) :
            MissingSkills(data.events[ei].required_skills, data.staffs[si].skills) # {} }

AppliedAndChecked ==
  /\ response.op = "run_solver" /\ response.code = 200
  /\ response.status \in {"OPTIMAL", "FEASIBLE"}
  /\ violations.at = ops

RequiredEvents ==
  { e \in Range(events) :
      /\ e.schedule_id = ThisSchedule /\ e.priority = "required"
      /\ e.status \in {"unassigned", "assigned"} }

Reported(e) ==
  { v \in violations.found : v.type = "hard" /\ v.severity = 950 /\ v.about = e.id }

(* C19: after a solver run was applied and validate_schedule has run, every *)
(* required event bound to the schedule (unassigned or assigned) either is  *)
(* the event_id of a row of the schedule, and then no violation names it,   *)
(* or is named by exactly one hard violation of severity 950.               *)
C19_RequiredEventReported ==
  AppliedAndChecked =>
    \A e \in RequiredEvents :
       IF \E r \in assignments : r.event_id = e.id
         THEN Reported(e) = {}
         ELSE Cardinality(Reported(e)) = 1

(* a required event that the applied run did not place is reported *)
C19_Witness ==
  /\ AppliedAndChecked
  /\ \E e \in RequiredEvents :
        /\ \A r \in assignments : r.event_id # e.id
        /\ Reported(e) # {}

-----------------------------------------------------------------------------
(* One placement per event, checked under SolveSpec *)

EventIdsOf(result) == { a.event_id : a \in Output(result) } \ {None}

EntriesOf(result, id) ==
  { i \in DOMAIN result.assignments : result.assignments[i].event_id = id }

(* the (staff, date, block) keys of a placement of e on staff si at slot *)
PlacementKeys(e, si, slot) ==
  LET dur == IF e.duration_hours # 0 THEN e.duration_hours ELSE 1
  IN  { <<si, slot[1], BlockAt(b)>> : b \in Range(_event_blocks_for_duration(slot[2], dur)) }

OnePlacement(result, e) ==
  \E si \in 1 .. Len(master.staffs), slot \in Range(_expand_event_slots(e, master.ym)) :
     LET keys == PlacementKeys(e, si, slot)
     IN  /\ { RowKey(result.assignments[i]) : i \in EntriesOf(result, e.id) } = keys
         /\ Cardinality(EntriesOf(result, e.id)) = Cardinality(keys)

(* C21: in every solver output the assignments carrying one event_id are    *)
(* the blocks of one span: one staff member, one date, a start that is an   *)
(* allowed slot of the event, every block of the span once; and the event   *)
(* is bound to this schedule and neither on hold nor done.                  *)
C21_PlacedAtMostOnce ==
  \A result \in Results :
     \A id \in EventIdsOf(result) :
        \E i \in DOMAIN events :
           /\ events[i].id = id
           /\ events[i].schedule_id = ThisSchedule
           /\ events[i].status \notin {"hold", "done"}
           /\ OnePlacement(result, events[i])

(* an output that places an event while a done event that has an allowed    *)
(* slot stays out                                                           *)
C21_Witness ==
  \E result \in Results :
     /\ Solved(result)
     /\ EventIdsOf(result) # {}
     /\ \E i \in DOMAIN events :
           /\ events[i].status = "done"
           /\ _expand_event_slots(events[i], master.ym) # <<>>
           /\ events[i].id \notin EventIdsOf(result)
-----------------------------------------------------------------------------
(* Locked cells and the solver's output, checked under SolveSpec.  A run    *)
(* neither removes nor adds a locked row, so the locked rows of the         *)
(* schedule after the run are those of the snapshot.                        *)

LockedKeys == { RowKey(r) : r \in { l \in assignments : l.is_locked } }

(* C22: the solver's output has no assignment for a (staff, date, block)    *)
(* that holds a locked row, whatever that row's task code or status color   *)
(* and whether the entry is a task assignment or a block of an event span.  *)
C22_LockedCellsSkipped ==
  \A result \in Results :
     \A a \in Output(result) : <<a.staff_id, a.date, a.time_block>> \notin LockedKeys
-----------------------------------------------------------------------------
(* Properties of the helpers, checked under HelperSpec *)

RECURSIVE Hours(_)
Hours(blocks) ==
  IF blocks = <<>> THEN 0
  ELSE BLOCK_DURATIONS[BlockAt(Head(blocks))] + Hours(Tail(blocks))

(* C23: for a start block b in 0..6 and duration_hours d >= 1 the span is   *)
(* b, b+1, ..., e, its blocks' canonical durations add up to at least d,    *)
(* and without the last block to less than d.                               *)
C23_SpanReachesDuration ==
  response.op = "_event_blocks_for_duration" =>
    LET blocks == response.blocks
    IN  /\ blocks # <<>>
        /\ \A i \in DOMAIN blocks : blocks[i] = response.start_bi + i - 1
        /\ Hours(blocks) >= response.duration_hours
        /\ Hours(SubSeq(blocks, 1, Len(blocks) - 1)) < response.duration_hours
-----------------------------------------------------------------------------
(* Allowed slots, checked under SolveSpec on the events of the snapshots *)

(* what the claim gives for one {date, start} payload *)
OneSlot(payload) ==
  IF payload.date \in Dates /\ payload.start \in DOMAIN START_HOUR_TO_BLOCK
    THEN { <<payload.date, BlockIndex(START_HOUR_TO_BLOCK[payload.start])>> }
    ELSE {}

RECURSIVE Distinct(_)
Distinct(seq) ==
  IF seq = <<>> THEN <<>>
  ELSE LET rest == Distinct(SubSeq(seq, 1, Len(seq) - 1))
           last == seq[Len(seq)]
       IN  IF last \in Range(rest) THEN rest ELSE Append(rest, last)

(* the snapshot with every candidate listed once *)
ListedOnce(data) ==
  [data EXCEPT !.events =
     [i \in DOMAIN data.events |->
        IF data.events[i].time_constraint_type = "candidates"
          THEN [data.events[i] EXCEPT !.time_constraint_data.slots = Distinct(@)]
          ELSE data.events[i]]]

PlacementChoices(data) == { sol.ev : sol \in Solutions(data) }

SlotsAsClaimed(e) ==
  LET allowed == _expand_event_slots(e, master.ym)
      tc_data == e.time_constraint_data
  IN  /\ e.time_constraint_type = "fixed" =>
           /\ Range(allowed) = OneSlot(tc_data)
           /\ Len(allowed) = Cardinality(OneSlot(tc_data))
      /\ e.time_constraint_type = "candidates" =>
           Range(allowed) = UNION { OneSlot(tc_data.slots[i]) : i \in DOMAIN tc_data.slots }

(* C24: a fixed constraint expands to exactly one start slot when its date  *)
(* is in the month and its start hour is in the table, and to none          *)
(* otherwise; a candidates constraint expands to the union of its slots'    *)
(* expansions, and listing a candidate more than once changes neither the   *)
(* placements the solver may choose nor whether the model has a solution.   *)
C24_CandidatesAreASet ==
  /\ \A i \in DOMAIN events : SlotsAsClaimed(events[i])
  /\ response.op = "create_schedule" =>
       PlacementChoices(_load_solver_data) = PlacementChoices(ListedOnce(_load_solver_data))

(* the expansion alone, checked under HelperSpec on the call's reply *)
ExpansionAsClaimed ==
  response.op = "_expand_event_slots" => SlotsAsClaimed(response.event)
-----------------------------------------------------------------------------
(* The validator's headcount checks, checked under SolveSpec on the states  *)
(* whose stored violations were computed from the rows of the state         *)

Checked == violations.at = ops

ActiveTaskTypes == { t \in Range(master.task_types) : t.is_active }

Headcount(d, block, code) ==
  Cardinality({ r \in assignments :
                  r.date = d /\ r.time_block = block /\ r.task_type_code = code })

ShortfallReports(d, block, code) ==
  { v \in violations.found :
      /\ v.type = "soft" /\ v.severity = 700
      /\ v.affected_date = d /\ v.affected_time_block = block /\ v.about = code }

(* C25: validate_schedule reports one soft violation of severity 700 for    *)
(* every Monday-to-Friday date, block in the task's default_blocks and      *)
(* active task type whose headcount is below min_staff, zero included, and  *)
(* none for a (date, block, task type) whose headcount is at least          *)
(* min_staff.                                                               *)
C25_MinStaffReported ==
  Checked =>
    \A t \in ActiveTaskTypes, d \in Dates, block \in Range(TIME_BLOCK_ORDER) :
       /\ (/\ Weekday(master.ym, d) < 5
           /\ block \in t.default_blocks
           /\ Headcount(d, block, t.code) < t.min_staff)
            => Cardinality(ShortfallReports(d, block, t.code)) = 1
       /\ Headcount(d, block, t.code) >= t.min_staff
            => ShortfallReports(d, block, t.code) = {}

RecurringRules ==
  { i \in DOMAIN master.rules :
      /\ master.rules[i].is_active /\ master.rules[i].template_type = "recurring"
      /\ master.rules[i].body.weekdays # {}
      /\ master.rules[i].body.task_type_code # None
      /\ master.rules[i].body.min_staff >= 1 }

RecurringReports(i, d, block) ==
  { v \in violations.found :
      /\ v.rule_id = i /\ v.affected_date = d /\ v.affected_time_block = block
      /\ v.type = master.rules[i].hard_or_soft
      /\ v.severity = IF master.rules[i].hard_or_soft = "soft"
                        THEN master.rules[i].weight ELSE 1000 }

(* C26: for an active recurring rule with weekdays W, task code t,          *)
(* min_staff m >= 1 and time_blocks B, the validator reports exactly one    *)
(* violation for every (date, block) whose weekday is in W, whose block is  *)
(* in B (any block when B is empty) and where fewer than m rows carry t,    *)
(* whether or not the (date, block) has a row; none elsewhere.              *)
C26_RecurringReported ==
  Checked =>
    \A i \in RecurringRules, d \in Dates, block \in Range(TIME_BLOCK_ORDER) :
       LET body == master.rules[i].body
           short == /\ Weekday(master.ym, d) \in body.weekdays
                    /\ (body.time_blocks = {} \/ block \in body.time_blocks)
                    /\ Headcount(d, block, body.task_type_code) < body.min_staff
       IN  Cardinality(RecurringReports(i, d, block)) = IF short THEN 1 ELSE 0
-----------------------------------------------------------------------------
(* The penalty terms, checked under SolveSpec on the snapshot to be solved *)

(* the constraints on x without those of the shortfall and excess variables *)
HardConstraints(data, x) ==
  /\ LockedCells(data, x)
  /\ SkillRequirements(data, x)
  /\ VisitTransport(data, x)
  /\ PartTimeLate(data, x)
  /\ HeadcountRules(data, x)

(* C28: the shortfall and excess terms are purely soft: every assignment x  *)
(* that satisfies the model without the shortfall and excess variables and  *)
(* their constraints satisfies the model with them, so they neither make    *)
(* the model infeasible nor force a staff member onto a task.               *)
C28_PenaltiesAreSoft ==
  response.op = "create_schedule" =>
    \A x \in XCandidates(_load_solver_data) :
       HardConstraints(_load_solver_data, x) => XConstraints(_load_solver_data, x)
-----------------------------------------------------------------------------
(* One entry per cell, checked under SolveSpec *)

(* C29: the list _extract_solution returns has at most one entry per        *)
(* (staff, date, block): no two event spans on one staff member share a     *)
(* (date, block) and no cell has both a task entry and an event entry.      *)
C29_OneEntryPerCell ==
  \A result \in Results :
     \A i, j \in DOMAIN result.assignments :
        RowKey(result.assignments[i]) = RowKey(result.assignments[j]) => i = j
====
